---- MODULE Spec2Model ----
(***************************************************************************)
(* State-machine model of rustbucket: the lifecycle controller (main.rs),  *)
(* instance registration and the health-check background task             *)
(* (registration.rs), the per-port listeners (main.rs) and the per-        *)
(* connection session loop (handler.rs).                                   *)
(*                                                                         *)
(* Text is modelled as a sequence of words, a received chunk as a sequence *)
(* of byte values, an HTTP outcome as its status code (TransportError for  *)
(* a request that produced no response).                                   *)
(***************************************************************************)
EXTENDS Integers, Sequences, FiniteSets, TLC

(***************************************************************************)
(* Bounds of the model                                                     *)
(***************************************************************************)
\* healthy reports the monitor may send in one run
MaxReports == 4
\* connections accepted in one run, over all listeners
MaxSessions == 1
\* connections accepted in one run in which sessions run side by side
MaxConcurrent == 2
\* healthy reports in one run in which the monitor runs beside the sessions
MaxServeReports == 2
\* non-empty reads in one run, over all sessions
MaxChunks == 2
\* failed accepts in one run, over all listeners
MaxAcceptErrors == 1

(***************************************************************************)
(* Program constants                                                       *)
(***************************************************************************)
DEFAULT_HEALTH_CHECK_INTERVAL == 300
MAX_BACKOFF_INTERVAL == 1800
REDUCED_CHECK_INTERVAL == 3600
\* a request that failed before any response (the Err(e) arms)
TransportError == 0

\* the addresses main listens on, in spawn order
ListenAddrs == <<25, 23, 21, 80>>

\* no RegistrationState
None == [name |-> "", token |-> "", registry_url |-> <<>>,
         health_check_interval |-> 0, health_check_enabled |-> FALSE]

(***************************************************************************)
(* Inputs                                                                  *)
(***************************************************************************)
\* registry URLs, as host followed by path segments
EnvUrls == {<<"http://env", "/register">>}
CfgUrls == {<<"http://cfg", "/api">>}
\* health_check_interval values a Config.toml may carry
CfgIntervals == {0, 2}
\* Config.toml as register_instance sees it: unreadable, without a
\* [registration] section, or with one whose keys are each optional
ConfigFiles ==
    {[load |-> "err", section |-> FALSE, url |-> <<>>, interval |-> <<>>, enabled |-> <<>>],
     [load |-> "ok", section |-> FALSE, url |-> <<>>, interval |-> <<>>, enabled |-> <<>>]}
    \cup {[load |-> "ok", section |-> TRUE, url |-> u, interval |-> i, enabled |-> e] :
            u \in {<<>>} \cup {<<c>> : c \in CfgUrls},
            i \in {<<>>} \cup {<<c>> : c \in CfgIntervals},
            e \in {<<>>, <<TRUE>>, <<FALSE>>}}
EnvVars == {<<>>} \cup {<<u>> : u \in EnvUrls}
\* register_instance has not run, or main has gone on to its listeners
NoInputs == [read |-> FALSE, env |-> <<>>,
             cfg |-> [load |-> "err", section |-> FALSE, url |-> <<>>,
                      interval |-> <<>>, enabled |-> <<>>]]

\* what generate_name and generate_token may return
Names == {"rustbucket-a"}
Tokens == {"tokenA", "tokenB"}

\* outcomes of an HTTP POST to the registry
HttpOutcomes == {200, 204, 401, 403, 404, 500, TransportError}

\* chunks a peer may send (byte values; 255 is not valid UTF-8)
Chunks == {<<104, 105>>, <<255>>}
\* what ChatService::send_message may return
Replies == {<<"reply">>}
ErrTexts == {<<"timeout">>, <<"auth", "failure">>}
ChatResults == {[ok |-> TRUE, text |-> r] : r \in Replies}
               \cup {[ok |-> FALSE, text |-> e] : e \in ErrTexts}
\* the peer's (ephemeral) port
PeerPorts == {80, 50000}

VARIABLES
    mainPc,         \* position of main
    handle,         \* main's Option<HealthCheckHandle>: TRUE when Some
    spawned,        \* number of listener tasks main has spawned
    reg,            \* register_instance's locals once a URL is resolved, or None
    state,          \* the RegistrationState moved into the monitor, or None
    regPosts,       \* registration POSTs issued: sequence of [url, name, token,
                    \*   outcome], outcome being <<>> until the response arrives
    inputs,         \* history: what env::var and the Config.toml load returned to
                    \*   register_instance; kept until the registration response
                    \*   arrives or, without a POST, until main spawns a listener
    log,            \* set of emitted log records <<format, arguments...>>
    monPc,          \* position of health_check_background_task
    consecutive_failures,
    current_interval,
    tickReady,      \* interval_timer has a tick ready
    waited,         \* history: a full period of interval_timer has elapsed since
                    \*   it was created and since the last healthy report was sent
    chan,           \* messages in the shutdown channel (capacity 1)
    senderAlive,    \* shutdown_tx has not been dropped
    reports,        \* health POSTs issued: sequence of [url, name, token, status]
    streak,         \* history: failed healthy reports since the last 200
    authRejected,   \* history: some healthy report was answered 401 or 403
    lst,            \* per listener: position of its task
    acceptErrors,   \* failed accepts so far
    sessions        \* the session tasks spawned so far, in accept order; of each:
                    \*   port, peer: the listener's port and the peer's (the peer's is
                    \*     not read after the match on the port; it is forgotten, as 0,
                    \*     when the first read returns)
                    \*   pc: position of the task; banner: handle_client's initial message
                    \*   received: the decoded chunk given to send_message
                    \*   result: what send_message returned for the latest chunk
                    \*   pending: the bytes given to the write_all in progress
                    \*   reads, chats, attempts: non-empty reads, send_message calls
                    \*     and write_all calls so far
                    \*   out: the bytes of each completed write
                    \*   lookups: evaluations of the match on the port so far
                    \*   exit: why the loop was left ("" while it has not been)

mainVars == <<mainPc, handle, spawned, reg, state, regPosts, inputs, log>>
monVars == <<monPc, consecutive_failures, current_interval, tickReady, waited, chan,
             senderAlive, reports, streak, authRejected>>
lstVars == <<lst, acceptErrors>>
vars == <<mainVars, monVars, lstVars, sessions>>

Listeners == 1..Len(ListenAddrs)

(***************************************************************************)
(* Helpers                                                                 *)
(***************************************************************************)
Min(a, b) == IF a <= b THEN a ELSE b

\* str::replace("/register", "/health") on a URL
ReplaceRegister(url) ==
    [i \in 1..Len(url) |-> IF url[i] = "/register" THEN "/health" ELSE url[i]]

IsSuccess(status) == status >= 200 /\ status <= 299

HealthyCount(rs) == Cardinality({i \in 1..Len(rs) : rs[i].status = "healthy"})
ShutdownCount(rs) == Cardinality({i \in 1..Len(rs) : rs[i].status = "shutting_down"})

MonLive == {"start", "select", "report", "final"}

Init ==
    /\ mainPc = "register"
    /\ handle = FALSE
    /\ spawned = 0
    /\ reg = None
    /\ state = None
    /\ regPosts = <<>>
    /\ inputs = NoInputs
    /\ log = {<<"Tracing initialized">>}
    /\ monPc = "none"
    /\ consecutive_failures = 0
    /\ current_interval = 0
    /\ tickReady = FALSE
    /\ waited = FALSE
    /\ chan = 0
    /\ senderAlive = FALSE
    /\ reports = <<>>
    /\ streak = 0
    /\ authRejected = FALSE
    /\ lst = [i \in Listeners |-> "unspawned"]
    /\ acceptErrors = 0
    /\ sessions = <<>>

(***************************************************************************)
(* register_instance (registration.rs)                                     *)
(***************************************************************************)
\* a variant that falls back to a built-in registry URL
ResolveUrlDefault(env, cfg) ==
    IF env # <<>> THEN env
    ELSE IF cfg.load = "ok" /\ cfg.section /\ cfg.url # <<>> THEN cfg.url
    ELSE << <<"http://default", "/register">> >>

\* a variant that prefers the config file's value
ResolveUrlConfigFirst(env, cfg) ==
    IF cfg.load = "ok" /\ cfg.section /\ cfg.url # <<>> THEN cfg.url
    ELSE env

\* step 1: the environment variable first, else the config file's value
ResolveUrl(env, cfg) ==
    IF env # <<>> THEN env
    ELSE IF cfg.load = "ok" /\ cfg.section THEN cfg.url
    ELSE <<>>

\* the log record of step 1
ResolveLog(env, cfg) ==
    IF env # <<>> THEN <<"Using registry URL from environment variable: ">> \o env[1]
    ELSE IF cfg.load # "ok" THEN <<"Failed to load configuration. Skipping registration.">>
    ELSE IF ~cfg.section THEN <<"No [registration] section found. Skipping registration.">>
    ELSE IF cfg.url = <<>> THEN <<"No rustbucket_registry_url configured - skipping.">>
    ELSE <<"Using registry URL from Config.toml: ">> \o cfg.url[1]

\* step 2: health-check settings, with their defaults
HealthCheckInterval(cfg) ==
    IF cfg.load = "ok" /\ cfg.section /\ cfg.interval # <<>>
    THEN cfg.interval[1] ELSE DEFAULT_HEALTH_CHECK_INTERVAL

HealthCheckEnabled(cfg) ==
    IF cfg.load = "ok" /\ cfg.section /\ cfg.enabled # <<>>
    THEN cfg.enabled[1] ELSE TRUE

\* steps 3 and 4 up to the POST: the records logged for a generated identity
IdentityLog(url, name, token) ==
    {<<"Attempting to register instance with URL: ">> \o url,
     <<"Generated instance name: ", name>>,
     <<"Generated instance token for debugging: ", token>>,
     <<"Posting registration data to URL: ">> \o url}

\* register_instance up to the first await: resolve, generate, POST
RegisterInstance ==
    /\ mainPc = "register"
    /\ \E env \in EnvVars, cfg \in ConfigFiles, name \in Names, token \in Tokens :
         LET resolved == ResolveUrl(env, cfg) IN
         /\ inputs' = [read |-> TRUE, env |-> env, cfg |-> cfg]
         /\ IF resolved = <<>>
            THEN /\ log' = log \cup {<<"Checking registration configuration...">>,
                                     ResolveLog(env, cfg)}
                 /\ mainPc' = "spawn"
                 /\ UNCHANGED <<reg, regPosts>>
            ELSE LET url == resolved[1] IN
                 /\ log' = log \cup {<<"Checking registration configuration...">>,
                                     ResolveLog(env, cfg)}
                               \cup IdentityLog(url, name, token)
                 /\ reg' = [name |-> name, token |-> token, registry_url |-> url,
                            health_check_interval |-> HealthCheckInterval(cfg),
                            health_check_enabled |-> HealthCheckEnabled(cfg)]
                 /\ regPosts' = Append(regPosts, [url |-> url, name |-> name,
                                                   token |-> token, outcome |-> <<>>])
                 /\ mainPc' = "reg_wait"
    /\ UNCHANGED <<handle, spawned, state, monVars, lstVars, sessions>>

\* a variant that accepts every 2xx status
RegistrationSuccessful2xx(outcome) == IsSuccess(outcome)

\* classification of the registration response
RegistrationSuccessful(outcome) == outcome = 200

RegistrationLog(outcome, r) ==
    IF outcome = TransportError THEN <<"Failed to send registration request to ">> \o r.registry_url
    ELSE IF outcome = 200 THEN <<"Successfully registered instance ", r.name>>
    ELSE IF outcome = 404 THEN <<"Registration failed: Bad URL (404 Not Found) for ">> \o r.registry_url
    ELSE IF outcome = 500 THEN <<"Registration failed: Server error (500) at ">> \o r.registry_url
    ELSE <<"Registration attempt returned unexpected status: ", ToString(outcome)>>

\* a variant that posts the registration again after a failed attempt
RegisterResponseRetry ==
    /\ mainPc = "reg_wait"
    /\ \E outcome \in HttpOutcomes :
         LET answered == [regPosts EXCEPT ![Len(regPosts)].outcome = <<outcome>>] IN
         IF RegistrationSuccessful(outcome) /\ reg.health_check_enabled
         THEN /\ regPosts' = answered
              /\ state' = reg
              /\ monPc' = "start"
              /\ senderAlive' = TRUE
              /\ handle' = TRUE
              /\ log' = log \cup {RegistrationLog(outcome, reg),
                                  <<"Health check background task started with interval: ",
                                    ToString(reg.health_check_interval)>>}
              /\ inputs' = NoInputs
              /\ mainPc' = "spawn"
         ELSE IF ~RegistrationSuccessful(outcome) /\ Len(regPosts) < 2
         THEN /\ regPosts' = Append(answered, [url |-> reg.registry_url, name |-> reg.name,
                                               token |-> reg.token, outcome |-> <<>>])
              /\ log' = log \cup {RegistrationLog(outcome, reg)}
              /\ UNCHANGED <<state, monPc, senderAlive, handle, inputs, mainPc>>
         ELSE /\ regPosts' = answered
              /\ log' = log \cup {RegistrationLog(outcome, reg)}
              /\ inputs' = NoInputs
              /\ mainPc' = "spawn"
              /\ UNCHANGED <<state, monPc, senderAlive, handle>>
    /\ UNCHANGED <<spawned, reg, consecutive_failures, current_interval,
                   tickReady, waited, chan, reports, streak, authRejected, lstVars, sessions>>

\* the response arrives; step 5 spawns the monitor and returns the handle
RegisterResponse ==
    /\ mainPc = "reg_wait"
    /\ \E outcome \in HttpOutcomes :
         /\ regPosts' = [regPosts EXCEPT ![Len(regPosts)].outcome = <<outcome>>]
         /\ IF RegistrationSuccessful(outcome) /\ reg.health_check_enabled
            THEN /\ state' = reg
                 /\ monPc' = "start"
                 /\ senderAlive' = TRUE
                 /\ handle' = TRUE
                 /\ log' = log \cup {RegistrationLog(outcome, reg),
                                     <<"Health check background task started with interval: ",
                                       ToString(reg.health_check_interval)>>}
            ELSE /\ log' = log \cup {RegistrationLog(outcome, reg)}
                 /\ UNCHANGED <<state, monPc, senderAlive, handle>>
    /\ inputs' = NoInputs
    /\ mainPc' = "spawn"
    /\ UNCHANGED <<spawned, reg, consecutive_failures, current_interval,
                   tickReady, waited, chan, reports, streak, authRejected, lstVars, sessions>>

(***************************************************************************)
(* main (main.rs)                                                          *)
(***************************************************************************)
\* a variant in which the spawn loop does not wait for the registration's
\* response
SpawnListenerEarly ==
    /\ mainPc \in {"spawn", "reg_wait"}
    /\ spawned < Len(ListenAddrs)
    /\ spawned' = spawned + 1
    /\ lst' = [lst EXCEPT ![spawned + 1] = "bind"]
    /\ inputs' = IF mainPc = "spawn" THEN NoInputs ELSE inputs
    /\ UNCHANGED <<mainPc, handle, reg, state, regPosts, log, monVars, acceptErrors, sessions>>

\* one iteration of the spawn loop
SpawnListener ==
    /\ mainPc = "spawn"
    /\ spawned < Len(ListenAddrs)
    /\ spawned' = spawned + 1
    /\ lst' = [lst EXCEPT ![spawned + 1] = "bind"]
    /\ inputs' = NoInputs
    /\ UNCHANGED <<mainPc, handle, reg, state, regPosts, log, monVars, acceptErrors, sessions>>

\* a variant in which main goes on to its shutdown when no listener task
\* is left
AwaitSignalJoin ==
    /\ mainPc = "spawn"
    /\ spawned = Len(ListenAddrs)
    /\ mainPc' = IF \A i \in Listeners : lst[i] \in {"bind_failed", "panicked"}
                 THEN "shutdown_health" ELSE "wait_signal"
    /\ UNCHANGED <<handle, spawned, reg, state, regPosts, inputs, log, monVars, lstVars, sessions>>

\* the loop is over: main waits for a signal
AwaitSignal ==
    /\ mainPc = "spawn"
    /\ spawned = Len(ListenAddrs)
    /\ mainPc' = "wait_signal"
    /\ UNCHANGED <<handle, spawned, reg, state, regPosts, inputs, log, monVars, lstVars, sessions>>

\* SIGINT or SIGTERM is delivered
Signal ==
    /\ mainPc = "wait_signal"
    /\ \E sig \in {"SIGINT (Ctrl+C)", "SIGTERM"} :
         log' = log \cup {<<"Received ", sig, ", initiating graceful shutdown...">>}
    /\ mainPc' = "shutdown_health"
    /\ UNCHANGED <<handle, spawned, reg, state, regPosts, inputs, monVars, lstVars, sessions>>

\* HealthCheckHandle::shutdown: send on the channel, result ignored; self is dropped
HandleShutdown ==
    /\ chan' = IF monPc \in MonLive THEN 1 ELSE chan
    /\ senderAlive' = FALSE

\* a variant that also awaits the end of the monitor task
ShutdownHealthCheckJoin ==
    /\ mainPc = "shutdown_health"
    /\ IF handle /\ senderAlive
       THEN /\ HandleShutdown
            /\ log' = log \cup {<<"Shutting down health check...">>}
            /\ UNCHANGED <<handle, mainPc>>
       ELSE /\ handle => monPc \in {"done", "panicked"}
            /\ handle' = FALSE
            /\ mainPc' = "abort"
            /\ UNCHANGED <<chan, senderAlive, log>>
    /\ UNCHANGED <<spawned, reg, state, regPosts, inputs, monPc, consecutive_failures,
                   current_interval, tickReady, waited, reports, streak, authRejected,
                   lstVars, sessions>>

\* if let Some(handle) = health_check_handle { handle.shutdown().await }
ShutdownHealthCheck ==
    /\ mainPc = "shutdown_health"
    /\ IF handle
       THEN /\ HandleShutdown
            /\ handle' = FALSE
            /\ log' = log \cup {<<"Shutting down health check...">>}
       ELSE UNCHANGED <<chan, senderAlive, handle, log>>
    /\ mainPc' = "abort"
    /\ UNCHANGED <<spawned, reg, state, regPosts, inputs, monPc, consecutive_failures,
                   current_interval, tickReady, waited, reports, streak, authRejected,
                   lstVars, sessions>>

\* for handle in handles { handle.abort() }
AbortListeners ==
    /\ mainPc = "abort"
    /\ lst' = [i \in Listeners |-> IF lst[i] \in {"bind", "accept"} THEN "aborted" ELSE lst[i]]
    /\ log' = log \cup {<<"Shutting down listeners...">>}
    /\ mainPc' = "complete"
    /\ UNCHANGED <<handle, spawned, reg, state, regPosts, inputs, monVars, acceptErrors, sessions>>

\* info!("Shutdown complete"); main returns and the runtime is dropped, which
\* cancels every task still alive at its await
RuntimeDrop(pc, live) == IF pc \in live THEN "dropped" ELSE pc

SessLive == {"spawned", "read", "chat", "write"}

ShutdownComplete ==
    /\ mainPc = "complete"
    /\ log' = log \cup {<<"Shutdown complete">>}
    /\ mainPc' = "done"
    /\ monPc' = RuntimeDrop(monPc, MonLive)
    /\ sessions' = [s \in 1..Len(sessions) |->
                      [sessions[s] EXCEPT !.pc = RuntimeDrop(sessions[s].pc, SessLive)]]
    /\ UNCHANGED <<handle, spawned, reg, state, regPosts, inputs, consecutive_failures,
                   current_interval, tickReady, waited, chan, senderAlive, reports, streak,
                   authRejected, lstVars>>

(***************************************************************************)
(* health_check_background_task (registration.rs)                          *)
(***************************************************************************)
\* the task's first poll: interval(current_interval) panics on a zero period;
\* otherwise the first, immediate tick is consumed
MonitorStart ==
    /\ monPc = "start"
    /\ IF state.health_check_interval = 0
       THEN /\ monPc' = "panicked"
            /\ log' = log \cup {<<"Starting health check background task">>}
            /\ UNCHANGED <<consecutive_failures, current_interval, tickReady, waited>>
       ELSE /\ monPc' = "select"
            /\ consecutive_failures' = 0
            /\ current_interval' = state.health_check_interval
            /\ tickReady' = FALSE
            /\ waited' = FALSE
            /\ log' = log \cup {<<"Starting health check background task">>}
    /\ UNCHANGED <<mainPc, handle, spawned, reg, state, regPosts, inputs, chan, senderAlive,
                   reports, streak, authRejected, lstVars, sessions>>

\* the period of interval_timer elapses
TimerElapse ==
    /\ monPc \in {"select", "report"}
    /\ ~tickReady
    /\ tickReady' = TRUE
    /\ waited' = TRUE
    /\ UNCHANGED <<mainVars, monPc, consecutive_failures, current_interval, chan,
                   senderAlive, reports, streak, authRejected, lstVars, sessions>>

\* mutant of RecvReady: recv() completes although nothing was sent and the
\* sender is alive
RecvReadySpurious == TRUE

\* shutdown_rx.recv() is ready: a message, or a closed and empty channel
RecvReady == chan > 0 \/ ~senderAlive

\* which branches of the select! may be taken: without `biased;` any ready one
SelectMayShutdown == RecvReady
SelectMayTick == tickReady

\* a variant that generates a token for each report
HealthReportFreshToken(status) ==
    [url |-> ReplaceRegister(state.registry_url), name |-> state.name,
     token |-> CHOOSE tok \in Tokens : tok # state.token, status |-> status]

HealthReport(status) ==
    [url |-> ReplaceRegister(state.registry_url), name |-> state.name,
     token |-> state.token, status |-> status]

\* the recv branch: send_shutdown_health_check up to its await
SelectShutdown ==
    /\ monPc = "select"
    /\ SelectMayShutdown
    /\ chan' = 0
    /\ reports' = Append(reports, HealthReport("shutting_down"))
    /\ log' = log \cup {<<"Received shutdown signal, sending final health check">>}
    /\ monPc' = "final"
    /\ UNCHANGED <<mainPc, handle, spawned, reg, state, regPosts, inputs, consecutive_failures,
                   current_interval, tickReady, waited, senderAlive, streak, authRejected,
                   lstVars, sessions>>

\* the tick branch: send_health_check up to its await
SelectTick ==
    /\ monPc = "select"
    /\ SelectMayTick
    /\ HealthyCount(reports) < MaxReports
    /\ tickReady' = FALSE
    /\ waited' = FALSE
    /\ reports' = Append(reports, HealthReport("healthy"))
    /\ monPc' = "report"
    /\ UNCHANGED <<mainVars, consecutive_failures, current_interval, chan, senderAlive,
                   streak, authRejected, lstVars, sessions>>

\* send_health_check's result
HealthCheckSuccess(outcome) == outcome = 200

HealthCheckLog(outcome) ==
    IF outcome = TransportError THEN <<"Health check request failed">>
    ELSE IF outcome = 200 THEN <<"Health check successful for instance ", state.name>>
    ELSE IF outcome = 404 THEN <<"Health check failed: Instance not found in registry (404).">>
    ELSE IF outcome \in {401, 403}
         THEN <<"Health check failed: Authentication failure. Disabling further health checks.",
                ToString(outcome)>>
    ELSE IF outcome = 500 THEN <<"Health check failed: Server error (500)">>
    ELSE <<"Health check returned unexpected status: ", ToString(outcome)>>

\* mutant of NextFailures: a success leaves the counter as it is
NextFailuresNoReset(success, failures) == IF success THEN failures ELSE failures + 1

\* the counter after a report
NextFailures(success, failures) == IF success THEN 0 ELSE failures + 1

\* a variant with base 4 instead of 2
BackoffPowerOfFour(failures) == Min(4 ^ Min(failures, 10), MAX_BACKOFF_INTERVAL)

\* the interval after a report, failures being the counter after it
Backoff(failures) == Min(2 ^ Min(failures, 10), MAX_BACKOFF_INTERVAL)

\* mutant of NextInterval: the reduced interval one failure late
NextIntervalLateReduce(success, failures, current, base) ==
    IF success THEN (IF current # base THEN base ELSE current)
    ELSE IF failures > 3 THEN REDUCED_CHECK_INTERVAL
    ELSE IF Backoff(failures) # current THEN Backoff(failures) ELSE current

NextInterval(success, failures, current, base) ==
    IF success THEN (IF current # base THEN base ELSE current)
    ELSE IF failures >= 3 THEN REDUCED_CHECK_INTERVAL
    ELSE IF Backoff(failures) # current THEN Backoff(failures) ELSE current

\* whether interval_timer is replaced by a new interval(...)
TimerReplaced(success, failures, current, base) ==
    IF success THEN current # base
    ELSE IF failures >= 3 THEN TRUE
    ELSE Backoff(failures) # current

IntervalLog(success, failures, current, base) ==
    IF ~TimerReplaced(success, failures, current, base) THEN {}
    ELSE IF success
         THEN {<<"Health check recovered, reset to normal interval: ", ToString(base)>>}
    ELSE IF failures >= 3
         THEN {<<"Health checks failing, reduced frequency to once per hour">>}
    ELSE {<<"Health check failed, backing off to interval: ", ToString(Backoff(failures))>>}

\* a variant in which an authentication rejection ends the whole process
HealthResponseFatal ==
    /\ monPc = "report"
    /\ \E outcome \in HttpOutcomes :
         LET success == HealthCheckSuccess(outcome)
             failures == NextFailures(success, consecutive_failures)
             base == state.health_check_interval
             fatal == outcome \in {401, 403}
         IN /\ consecutive_failures' = failures
            /\ current_interval' = NextInterval(success, failures, current_interval, base)
            /\ tickReady' = IF TimerReplaced(success, failures, current_interval, base)
                            THEN TRUE ELSE tickReady
            /\ waited' = IF TimerReplaced(success, failures, current_interval, base)
                         THEN FALSE ELSE waited
            /\ log' = log \cup {HealthCheckLog(outcome)}
                          \cup IntervalLog(success, failures, current_interval, base)
            /\ streak' = IF outcome = 200 THEN 0 ELSE streak + 1
            /\ authRejected' = (authRejected \/ fatal)
            /\ monPc' = IF fatal THEN "done" ELSE "select"
            /\ lst' = IF fatal
                      THEN [i \in Listeners |->
                              IF lst[i] \in {"bind", "accept"} THEN "aborted" ELSE lst[i]]
                      ELSE lst
            /\ sessions' = IF fatal
                           THEN [s \in 1..Len(sessions) |->
                                   [sessions[s] EXCEPT !.pc = RuntimeDrop(sessions[s].pc, SessLive)]]
                           ELSE sessions
    /\ UNCHANGED <<mainPc, handle, spawned, reg, state, regPosts, inputs, chan, senderAlive,
                   reports, acceptErrors>>

\* the response to a healthy report arrives: the rest of the tick branch
HealthResponse ==
    /\ monPc = "report"
    /\ \E outcome \in HttpOutcomes :
         LET success == HealthCheckSuccess(outcome)
             failures == NextFailures(success, consecutive_failures)
             base == state.health_check_interval
         IN /\ consecutive_failures' = failures
            /\ current_interval' = NextInterval(success, failures, current_interval, base)
            \* a new interval's first tick completes immediately
            /\ tickReady' = IF TimerReplaced(success, failures, current_interval, base)
                            THEN TRUE ELSE tickReady
            /\ waited' = IF TimerReplaced(success, failures, current_interval, base)
                         THEN FALSE ELSE waited
            /\ log' = log \cup {HealthCheckLog(outcome)}
                          \cup IntervalLog(success, failures, current_interval, base)
            /\ streak' = IF outcome = 200 THEN 0 ELSE streak + 1
            /\ authRejected' = (authRejected \/ outcome \in {401, 403})
    /\ monPc' = "select"
    /\ UNCHANGED <<mainPc, handle, spawned, reg, state, regPosts, inputs, chan, senderAlive,
                   reports, lstVars, sessions>>

ShutdownLog(outcome) ==
    IF outcome = TransportError THEN <<"Failed to send shutdown notification">>
    ELSE IF IsSuccess(outcome) THEN <<"Successfully notified registry of shutdown for instance ", state.name>>
    ELSE <<"Shutdown notification returned status: ", ToString(outcome)>>

\* the response to the shutdown report arrives: break, the task ends
ShutdownResponse ==
    /\ monPc = "final"
    /\ \E outcome \in HttpOutcomes : log' = log \cup {ShutdownLog(outcome)}
    /\ monPc' = "done"
    /\ UNCHANGED <<mainPc, handle, spawned, reg, state, regPosts, inputs, consecutive_failures,
                   current_interval, tickReady, waited, chan, senderAlive, reports, streak,
                   authRejected, lstVars, sessions>>

(***************************************************************************)
(* start_listener (main.rs)                                                *)
(***************************************************************************)
\* a variant in which a bind error takes the sibling listeners down with it
ListenerBindFatal(i) ==
    /\ lst[i] = "bind"
    /\ \E result \in {"ok", "bind_error", "chatgpt_error"} :
         \/ /\ result = "ok"
            /\ lst' = [lst EXCEPT ![i] = "accept"]
            /\ UNCHANGED log
         \/ /\ result = "bind_error"
            /\ lst' = [j \in Listeners |->
                         IF j = i THEN "bind_failed"
                         ELSE IF lst[j] \in {"bind", "accept"} THEN "aborted" ELSE lst[j]]
            /\ log' = log \cup {<<"Listener for ", ToString(ListenAddrs[i]), " failed">>}
         \/ /\ result = "chatgpt_error"
            /\ lst' = [lst EXCEPT ![i] = "panicked"]
            /\ UNCHANGED log
    /\ UNCHANGED <<mainPc, handle, spawned, reg, state, regPosts, inputs, monVars,
                   acceptErrors, sessions>>

\* TcpListener::bind and local_addr, then ChatGPT::new().unwrap()
ListenerBind(i) ==
    /\ lst[i] = "bind"
    /\ \E result \in {"ok", "bind_error", "chatgpt_error"} :
         \/ /\ result = "ok"
            /\ lst' = [lst EXCEPT ![i] = "accept"]
            /\ UNCHANGED log
         \/ /\ result = "bind_error"
            /\ lst' = [lst EXCEPT ![i] = "bind_failed"]
            /\ log' = log \cup {<<"Listener for ", ToString(ListenAddrs[i]), " failed">>}
         \/ /\ result = "chatgpt_error"
            /\ lst' = [lst EXCEPT ![i] = "panicked"]
            /\ UNCHANGED log
    /\ UNCHANGED <<mainPc, handle, spawned, reg, state, regPosts, inputs, monVars,
                   acceptErrors, sessions>>

\* a session task as task::spawn creates it: it owns the stream and knows
\* the listener's port and the peer's
NewSession(listenerPort, peerPort) ==
    [port |-> listenerPort, peer |-> peerPort, pc |-> "spawned", banner |-> <<>>,
     received |-> <<>>, result |-> <<>>, pending |-> <<>>, reads |-> 0, chats |-> 0,
     attempts |-> 0, out |-> <<>>, lookups |-> 0, exit |-> ""]

\* a variant that runs the session inside the accept loop: no connection is
\* accepted while a session of this listener is running
AcceptOkInline(i) ==
    /\ lst[i] = "accept"
    /\ Len(sessions) < MaxConcurrent
    /\ \A s \in 1..Len(sessions) :
          sessions[s].port = ListenAddrs[i] => sessions[s].pc \notin SessLive
    /\ \E peerPort \in PeerPorts :
         sessions' = Append(sessions, NewSession(ListenAddrs[i], peerPort))
    /\ UNCHANGED <<mainVars, monVars, lstVars>>

\* accept returns a connection
AcceptOk(i) ==
    /\ lst[i] = "accept"
    /\ Len(sessions) < MaxConcurrent
    /\ \E peerPort \in PeerPorts :
         sessions' = Append(sessions, NewSession(ListenAddrs[i], peerPort))
    /\ UNCHANGED <<mainVars, monVars, lstVars>>

\* a variant in which an accept error ends the listener task
AcceptErrFatal(i) ==
    /\ lst[i] = "accept"
    /\ acceptErrors < MaxAcceptErrors
    /\ acceptErrors' = acceptErrors + 1
    /\ lst' = [lst EXCEPT ![i] = "bind_failed"]
    /\ UNCHANGED <<mainVars, monVars, sessions>>

\* accept returns an error: it is printed and the loop goes on
AcceptErr(i) ==
    /\ lst[i] = "accept"
    /\ acceptErrors < MaxAcceptErrors
    /\ acceptErrors' = acceptErrors + 1
    /\ UNCHANGED <<mainVars, monVars, lst, sessions>>

\* match listener_addr.port(): the message of the port's arm, if it has one
PortMessage(port) ==
    IF port = 25 THEN <<"220 mail.example.com ESMTP Postfix (Ubuntu)">>
    ELSE IF port = 80 THEN <<"GET / HTTP/1.1\nHost: example.com">>
    ELSE IF port = 21 THEN <<"220 (vsFTPd 3.0.3)">>
    ELSE <<>>

PortLog(port) ==
    IF port \in {25, 80, 21}
    THEN {<<"Actor attempted to connect to port ", ToString(port)>>,
          <<"Actor input message: ">> \o PortMessage(port)}
    ELSE {<<"Actor connected to an unexpected port.">>}

\* a variant that matches on the peer's port
SessionStartByPeer(s) ==
    /\ s <= Len(sessions)
    /\ sessions[s].pc = "spawned"
    /\ LET msg == PortMessage(sessions[s].peer) IN
         sessions' = [sessions EXCEPT ![s].pc = IF msg = <<>> THEN "unexpected" ELSE "read",
                                      ![s].banner = msg,
                                      ![s].lookups = @ + 1]
    /\ log' = log \cup PortLog(sessions[s].peer)
    /\ UNCHANGED <<mainPc, handle, spawned, reg, state, regPosts, inputs, monVars, lstVars>>

\* a variant in which handle_client first writes its initial message
SessionStartWriteBanner(s) ==
    /\ s <= Len(sessions)
    /\ sessions[s].pc = "spawned"
    /\ LET msg == PortMessage(sessions[s].port) IN
         sessions' = [sessions EXCEPT ![s].pc = IF msg = <<>> THEN "unexpected" ELSE "read",
                                      ![s].banner = msg,
                                      ![s].out = IF msg = <<>> THEN @ ELSE Append(@, msg),
                                      ![s].lookups = @ + 1]
    /\ log' = log \cup PortLog(sessions[s].port)
    /\ UNCHANGED <<mainPc, handle, spawned, reg, state, regPosts, inputs, monVars, lstVars>>

\* the spawned task's first poll: the match, and handle_client up to its read
SessionStart(s) ==
    /\ s <= Len(sessions)
    /\ sessions[s].pc = "spawned"
    /\ LET msg == PortMessage(sessions[s].port) IN
         sessions' = [sessions EXCEPT ![s].pc = IF msg = <<>> THEN "unexpected" ELSE "read",
                                      ![s].banner = msg,
                                      ![s].lookups = @ + 1]
    /\ log' = log \cup PortLog(sessions[s].port)
    /\ UNCHANGED <<mainPc, handle, spawned, reg, state, regPosts, inputs, monVars, lstVars>>

(***************************************************************************)
(* handle_client (handler.rs)                                              *)
(***************************************************************************)
\* String::from_utf8_lossy, on chunks whose bytes are ASCII or invalid: an
\* invalid byte becomes U+FFFD
FromUtf8Lossy(bytes) ==
    [i \in 1..Len(bytes) |-> IF bytes[i] < 128 THEN bytes[i] ELSE 65533]

\* mutant of Response: a failure is answered with a fixed string
ResponseGeneric(result) ==
    IF result.ok THEN result.text ELSE <<"Error processing request">>

\* mutant of Response: a line end is added to every response
ResponseNewline(result) ==
    (IF result.ok THEN result.text ELSE <<"Error processing request: ">> \o result.text)
    \o <<"\n">>

\* mutant of Response: a failure is answered with its text alone
ResponseBare(result) == result.text

\* unwrap_or_else(|err_string| format!("Error processing request: {}", err_string))
Response(result) ==
    IF result.ok THEN result.text ELSE <<"Error processing request: ">> \o result.text

RECURSIVE SumReads(_)
SumReads(ss) == IF ss = <<>> THEN 0 ELSE Head(ss).reads + SumReads(Tail(ss))

\* Ok(n), n > 0: decode and call the chat service
ReadChunk(s) ==
    /\ s <= Len(sessions)
    /\ sessions[s].pc = "read"
    /\ SumReads(sessions) < MaxChunks
    /\ \E chunk \in Chunks :
         sessions' = [sessions EXCEPT ![s].received = FromUtf8Lossy(chunk),
                                      ![s].result = <<>>,
                                      ![s].peer = 0,
                                      ![s].reads = @ + 1,
                                      ![s].chats = @ + 1,
                                      ![s].pc = "chat"]
    /\ UNCHANGED <<mainVars, monVars, lstVars>>

\* mutant of ReadClosed: a zero-length read is logged and the loop goes on
ReadClosedContinue(s) ==
    /\ s <= Len(sessions)
    /\ sessions[s].pc = "read"
    /\ sessions[s].exit = ""
    /\ sessions' = [sessions EXCEPT ![s].exit = "eof", ![s].peer = 0]
    /\ log' = log \cup {<<"Connection closed">>}
    /\ UNCHANGED <<mainPc, handle, spawned, reg, state, regPosts, inputs, monVars, lstVars>>

\* Ok(0): the peer closed
ReadClosed(s) ==
    /\ s <= Len(sessions)
    /\ sessions[s].pc = "read"
    /\ sessions' = [sessions EXCEPT ![s].pc = "closed", ![s].exit = "eof", ![s].peer = 0]
    /\ log' = log \cup {<<"Connection closed">>}
    /\ UNCHANGED <<mainPc, handle, spawned, reg, state, regPosts, inputs, monVars, lstVars>>

\* Err(e) from read
ReadError(s) ==
    /\ s <= Len(sessions)
    /\ sessions[s].pc = "read"
    /\ sessions' = [sessions EXCEPT ![s].pc = "closed", ![s].exit = "read_error",
                                    ![s].peer = 0]
    /\ log' = log \cup {<<"Failed to read from stream">>}
    /\ UNCHANGED <<mainPc, handle, spawned, reg, state, regPosts, inputs, monVars, lstVars>>

\* a variant in which a ChatService failure ends the session
ChatReturnFatal(s) ==
    /\ s <= Len(sessions)
    /\ sessions[s].pc = "chat"
    /\ \E result \in ChatResults :
         /\ sessions' = [sessions EXCEPT ![s].pending = IF result.ok THEN Response(result)
                                                        ELSE <<>>,
                                         ![s].result = <<result>>,
                                         ![s].received = <<>>,
                                         ![s].attempts = IF result.ok THEN @ + 1 ELSE @,
                                         ![s].pc = IF result.ok THEN "write" ELSE "closed"]
         /\ log' = log \cup {<<"Received data: ", ToString(sessions[s].received)>>,
                             <<"Response message: ">> \o Response(result)}
    /\ UNCHANGED <<mainPc, handle, spawned, reg, state, regPosts, inputs, monVars, lstVars>>

\* send_message returns: the response is logged and write_all is called
ChatReturn(s) ==
    /\ s <= Len(sessions)
    /\ sessions[s].pc = "chat"
    /\ \E result \in ChatResults :
         /\ sessions' = [sessions EXCEPT ![s].pending = Response(result),
                                         ![s].result = <<result>>,
                                         ![s].received = <<>>,
                                         ![s].attempts = @ + 1,
                                         ![s].pc = "write"]
         /\ log' = log \cup {<<"Received data: ", ToString(sessions[s].received)>>,
                             <<"Response message: ">> \o Response(result)}
    /\ UNCHANGED <<mainPc, handle, spawned, reg, state, regPosts, inputs, monVars, lstVars>>

\* write_all succeeds: back to the read
WriteOk(s) ==
    /\ s <= Len(sessions)
    /\ sessions[s].pc = "write"
    /\ sessions' = [sessions EXCEPT ![s].out = Append(@, sessions[s].pending),
                                    ![s].pending = <<>>,
                                    ![s].pc = "read"]
    /\ UNCHANGED <<mainVars, monVars, lstVars>>

\* mutant of WriteError: a failed write is tried again
WriteErrorRetry(s) ==
    /\ s <= Len(sessions)
    /\ sessions[s].pc = "write"
    /\ sessions[s].attempts <= MaxChunks
    /\ sessions' = [sessions EXCEPT ![s].attempts = @ + 1]
    /\ log' = log \cup {<<"Failed to send data">>, <<"Failed to write data.">>}
    /\ UNCHANGED <<mainPc, handle, spawned, reg, state, regPosts, inputs, monVars, lstVars>>

\* mutant of WriteError: a failed write is logged and the loop goes on
WriteErrorNoBreak(s) ==
    /\ s <= Len(sessions)
    /\ sessions[s].pc = "write"
    /\ sessions' = [sessions EXCEPT ![s].pending = <<>>, ![s].pc = "read",
                                    ![s].exit = "write_error"]
    /\ log' = log \cup {<<"Failed to send data">>, <<"Failed to write data.">>}
    /\ UNCHANGED <<mainPc, handle, spawned, reg, state, regPosts, inputs, monVars, lstVars>>

\* write_all fails: the loop is left
WriteError(s) ==
    /\ s <= Len(sessions)
    /\ sessions[s].pc = "write"
    /\ sessions' = [sessions EXCEPT ![s].pending = <<>>, ![s].pc = "closed",
                                    ![s].exit = "write_error"]
    /\ log' = log \cup {<<"Failed to send data">>, <<"Failed to write data.">>}
    /\ UNCHANGED <<mainPc, handle, spawned, reg, state, regPosts, inputs, monVars, lstVars>>

(***************************************************************************)
(* Specifications                                                          *)
(***************************************************************************)
MainNext ==
    \/ RegisterInstance
    \/ RegisterResponse
    \/ SpawnListener
    \/ AwaitSignal
    \/ Signal
    \/ ShutdownHealthCheck
    \/ AbortListeners
    \/ ShutdownComplete

MonitorNext ==
    \/ MonitorStart
    \/ TimerElapse
    \/ SelectShutdown
    \/ SelectTick
    \/ HealthResponse
    \/ ShutdownResponse

ListenerNext ==
    \/ \E i \in Listeners : ListenerBind(i)
    \/ \E i \in Listeners : AcceptOk(i)
    \/ \E i \in Listeners : AcceptErr(i)

SessionNext ==
    \/ \E s \in 1..MaxConcurrent : SessionStart(s)
    \/ \E s \in 1..MaxConcurrent : ReadChunk(s)
    \/ \E s \in 1..MaxConcurrent : ReadClosed(s)
    \/ \E s \in 1..MaxConcurrent : ReadError(s)
    \/ \E s \in 1..MaxConcurrent : ChatReturn(s)
    \/ \E s \in 1..MaxConcurrent : WriteOk(s)
    \/ \E s \in 1..MaxConcurrent : WriteError(s)

Next == MainNext \/ MonitorNext \/ ListenerNext \/ SessionNext

\* the whole process
Spec == Init /\ [][Next]_vars

\* the process while no peer connects: lifecycle, registration, monitor
HealthNext == MainNext \/ MonitorNext

SpecHealth == Init /\ [][HealthNext]_vars

\* a state of the process in which it serves: no registry URL is configured, so
\* register_instance returned None and there is no monitor; every listener
\* is bound and accepting; main waits for a signal
InitSession ==
    /\ mainPc = "wait_signal"
    /\ handle = FALSE
    /\ spawned = Len(ListenAddrs)
    /\ reg = None
    /\ state = None
    /\ regPosts = <<>>
    /\ inputs = NoInputs
    /\ log = {<<"Tracing initialized">>, <<"Checking registration configuration...">>,
              <<"No [registration] section found. Skipping registration.">>}
    /\ monPc = "none"
    /\ consecutive_failures = 0
    /\ current_interval = 0
    /\ tickReady = FALSE
    /\ waited = FALSE
    /\ chan = 0
    /\ senderAlive = FALSE
    /\ reports = <<>>
    /\ streak = 0
    /\ authRejected = FALSE
    /\ lst = [i \in Listeners |-> "accept"]
    /\ acceptErrors = 0
    /\ sessions = <<>>

\* the process from there on: connections, sessions, shutdown
SessionSpecNext ==
    \/ \E i \in Listeners : Len(sessions) < MaxSessions /\ AcceptOk(i)
    \/ SessionNext
    \/ Signal
    \/ ShutdownHealthCheck
    \/ AbortListeners
    \/ ShutdownComplete

SpecSession == InitSession /\ [][SessionSpecNext]_vars

\* the state in which main enters its spawn loop when no registry URL is
\* configured: register_instance returned None, no listener task exists yet
InitListen ==
    /\ mainPc = "spawn"
    /\ handle = FALSE
    /\ spawned = 0
    /\ reg = None
    /\ state = None
    /\ regPosts = <<>>
    /\ inputs = NoInputs
    /\ log = {<<"Tracing initialized">>, <<"Checking registration configuration...">>,
              <<"No [registration] section found. Skipping registration.">>}
    /\ monPc = "none"
    /\ consecutive_failures = 0
    /\ current_interval = 0
    /\ tickReady = FALSE
    /\ waited = FALSE
    /\ chan = 0
    /\ senderAlive = FALSE
    /\ reports = <<>>
    /\ streak = 0
    /\ authRejected = FALSE
    /\ lst = [i \in Listeners |-> "unspawned"]
    /\ acceptErrors = 0
    /\ sessions = <<>>

\* the process from there on: the listener tasks, each accepted connection up
\* to handle_client's first read, and shutdown
ListenNext ==
    \/ SpawnListener
    \/ AwaitSignal
    \/ Signal
    \/ ShutdownHealthCheck
    \/ AbortListeners
    \/ ShutdownComplete
    \/ \E i \in Listeners : ListenerBind(i)
    \/ \E i \in Listeners : Len(sessions) < MaxSessions /\ AcceptOk(i)
    \/ \E i \in Listeners : AcceptErr(i)
    \/ \E s \in 1..MaxSessions : SessionStart(s)

SpecListen == InitListen /\ [][ListenNext]_vars

\* the Config.toml of the runs that start at register_instance's return:
\* not loadable (default interval, checks enabled), or a health-check
\* interval of 0 and nothing else
ServeConfigs ==
    {[load |-> "err", section |-> FALSE, url |-> <<>>, interval |-> <<>>, enabled |-> <<>>],
     [load |-> "ok", section |-> TRUE, url |-> <<>>, interval |-> <<0>>, enabled |-> <<>>]}

\* the state in which register_instance has returned after a registration
\* POST answered with outcome, the URL coming from the environment
Registered(outcome, cfg) ==
    LET env == <<"http://env", "/register">>
        r == [name |-> "rustbucket-a", token |-> "tokenA", registry_url |-> env,
              health_check_interval |-> HealthCheckInterval(cfg),
              health_check_enabled |-> HealthCheckEnabled(cfg)]
        ok == RegistrationSuccessful(outcome) /\ r.health_check_enabled
    IN /\ mainPc = "spawn"
       /\ handle = ok
       /\ spawned = 0
       /\ reg = r
       /\ state = IF ok THEN r ELSE None
       /\ regPosts = <<[url |-> env, name |-> r.name, token |-> r.token,
                        outcome |-> <<outcome>>]>>
       /\ inputs = NoInputs
       /\ log = {<<"Tracing initialized">>, <<"Checking registration configuration...">>,
                 ResolveLog(<<env>>, cfg), RegistrationLog(outcome, r)}
                \cup IdentityLog(env, r.name, r.token)
                \cup (IF ok THEN {<<"Health check background task started with interval: ",
                                    ToString(r.health_check_interval)>>}
                      ELSE {})
       /\ monPc = IF ok THEN "start" ELSE "none"
       /\ consecutive_failures = 0
       /\ current_interval = 0
       /\ tickReady = FALSE
       /\ waited = FALSE
       /\ chan = 0
       /\ senderAlive = ok
       /\ reports = <<>>
       /\ streak = 0
       /\ authRejected = FALSE
       /\ lst = [i \in Listeners |-> "unspawned"]
       /\ acceptErrors = 0
       /\ sessions = <<>>

\* main enters its spawn loop after any outcome of register_instance
InitServe ==
    \/ InitListen
    \/ \E outcome \in HttpOutcomes, cfg \in ServeConfigs : Registered(outcome, cfg)

\* the process from there on while no signal arrives and the ports are
\* free: listeners, sessions and the monitor side by side
ServeNext ==
    \/ SpawnListener
    \/ AwaitSignal
    \/ \E i \in Listeners : ListenerBind(i) /\ lst'[i] = "accept"
    \/ \E i \in Listeners : Len(sessions) < MaxSessions /\ AcceptOk(i)
    \/ \E s \in 1..MaxSessions : SessionStart(s)
    \/ \E s \in 1..MaxSessions : ReadChunk(s)
    \/ \E s \in 1..MaxSessions : ChatReturn(s)
    \/ \E s \in 1..MaxSessions : WriteOk(s)
    \/ MonitorStart
    \/ TimerElapse
    \/ HealthyCount(reports) < MaxServeReports /\ SelectTick
    \/ HealthResponse

SpecServe == InitServe /\ [][ServeNext]_vars

\* the process from register_instance's return to main's return while no
\* peer connects: listeners that bind or fail, the monitor, the signal
ShutdownNext ==
    \/ SpawnListener
    \/ AwaitSignal
    \/ Signal
    \/ ShutdownHealthCheck
    \/ AbortListeners
    \/ ShutdownComplete
    \/ \E i \in Listeners : ListenerBind(i)
    \/ MonitorStart
    \/ TimerElapse
    \/ SelectShutdown
    \/ HealthyCount(reports) < MaxServeReports /\ SelectTick
    \/ HealthResponse
    \/ ShutdownResponse

\* main runs on as long as it can take a step: none of its steps after the
\* signal waits for another task (the send finds the channel empty or closed)
SpecShutdownLive ==
    /\ InitServe
    /\ [][ShutdownNext]_vars
    /\ WF_vars(ShutdownHealthCheck)
    /\ WF_vars(AbortListeners)
    /\ WF_vars(ShutdownComplete)

\* the process from its start to its first connections, while the monitor
\* task, if there is one, has not run yet
StartupNext ==
    \/ RegisterInstance
    \/ RegisterResponse
    \/ SpawnListener
    \/ AwaitSignal
    \/ \E i \in Listeners : ListenerBind(i)
    \/ \E i \in Listeners : Len(sessions) < MaxSessions /\ AcceptOk(i)
    \/ \E s \in 1..MaxSessions : SessionStart(s)

SpecStartup == Init /\ [][StartupNext]_vars

\* the serving process with peers that keep their connections open and
\* sockets that do not fail: the accept loops and the sessions side by side
ConcurrentNext ==
    \/ \E i \in Listeners : AcceptOk(i)
    \/ \E s \in 1..MaxConcurrent : SessionStart(s)
    \/ \E s \in 1..MaxConcurrent : ReadChunk(s)
    \/ \E s \in 1..MaxConcurrent : ChatReturn(s)
    \/ \E s \in 1..MaxConcurrent : WriteOk(s)

SpecConcurrent == InitSession /\ [][ConcurrentNext]_vars

(***************************************************************************)
(* Properties of the health monitor and of shutdown                        *)
(***************************************************************************)
\* the monitor has entered its loop
InLoop == monPc \in {"select", "report", "final", "done", "dropped"} /\ current_interval > 0

\* C1: after a healthy report is answered 401 or 403, no further report with
\* status "healthy" is sent
C1_NoHealthyAfterAuthRejection ==
    [][authRejected => HealthyCount(reports') = HealthyCount(reports)]_vars

\* C2: once a termination request has reached a live monitor, main does not
\* get past aborting the listeners (nor log "Shutdown complete", nor return)
\* before the "shutting_down" report has been attempted
C2_FinalReportBeforeAbort ==
    (mainPc \in {"complete", "done"} /\ InLoop) => ShutdownCount(reports) >= 1

\* C3: once the monitor handles the cancellation, exactly one "shutting_down"
\* report is attempted, it is the last report of any kind, the task does not go
\* back to its loop whatever the outcome, and no such report precedes the
\* cancellation
C3_ExactlyOneFinalReport ==
    /\ ShutdownCount(reports) <= 1
    /\ monPc \in {"final", "done"} => ShutdownCount(reports) = 1
    /\ ShutdownCount(reports) = 1 =>
          /\ reports[Len(reports)].status = "shutting_down"
          /\ monPc \in {"final", "done", "dropped"}
          /\ mainPc \in {"abort", "complete", "done"}
          /\ ~senderAlive

\* C3 happens: the final report failed and the task ended after a healthy report
C3_Witness ==
    /\ monPc = "done"
    /\ HealthyCount(reports) >= 1
    /\ <<"Failed to send shutdown notification">> \in log

\* C4: when the monitor waits in its select with a cancellation pending, the
\* cancellation branch is taken: no healthy report is sent from there
C4_CancellationWins ==
    [][(monPc = "select" /\ chan > 0) => HealthyCount(reports') = HealthyCount(reports)]_vars

\* C5: after 1 consecutive failed report the interval is 2 s, after 2 it is
\* 4 s, after 3 or more it is 3600 s, whatever the base interval
C5_BackoffSchedule ==
    InLoop =>
       /\ streak = 1 => current_interval = 2
       /\ streak = 2 => current_interval = 4
       /\ streak >= 3 => current_interval = 3600

\* C5 happens: a fourth consecutive failure, with a base interval of 2 s
C5_Witness ==
    /\ InLoop
    /\ streak >= 4
    /\ state.health_check_interval = 2
    /\ current_interval = 3600

\* C6: a 200 response sets the failure counter to 0 and the interval to the
\* configured base, whatever came before
C6_Recovery ==
    (InLoop /\ streak = 0) =>
       /\ consecutive_failures = 0
       /\ current_interval = state.health_check_interval

\* C6 happens: a 200 after the interval had been reduced to one hour
C6_Witness ==
    /\ monPc = "select"
    /\ streak = 0
    /\ current_interval = state.health_check_interval
    /\ <<"Health checks failing, reduced frequency to once per hour">> \in log

(***************************************************************************)
(* Properties of a session                                                 *)
(***************************************************************************)
ErrorPrefix == "Error processing request: "

\* the session's latest send_message failed
ChatFailed(x) == x.result # <<>> /\ ~x.result[1].ok

Failure(e) == [ok |-> FALSE, text |-> e]

C8_ErrorWrittenThenNextRead ==
    \A s \in 1..Len(sessions) :
       LET x == sessions[s]
           expected == <<ErrorPrefix>> \o x.result[1].text
       IN ChatFailed(x) =>
             /\ x.pc # "chat"
             /\ x.attempts = x.reads
             /\ x.pc = "write" => x.pending = expected
             /\ x.pc = "read" => (x.out # <<>> /\ x.out[Len(x.out)] = expected)

\* C8 happens: after a failed chat call the session is back at its read
C8_Witness ==
    \E s \in 1..Len(sessions) :
       /\ sessions[s].pc = "read"
       /\ ChatFailed(sessions[s])
       /\ sessions[s].out = << <<ErrorPrefix, "timeout">> >>

\* C10: a non-empty read is followed by one send_message call and then one
\* write_all call before the next read: at each read the three counts are
\* equal, during the chat call the write is the only one missing, and the
\* completed writes are never more than the attempts
C10_ReadChatWriteSequential ==
    \A s \in 1..Len(sessions) :
       LET x == sessions[s] IN
       /\ x.chats = x.reads
       /\ x.attempts <= x.chats
       /\ x.chats <= x.attempts + 1
       /\ x.pc \in {"read", "write", "closed"} => x.attempts = x.reads
       /\ x.pc = "chat" => x.attempts + 1 = x.reads
       /\ x.pc = "write" => Len(x.out) + 1 = x.attempts
       /\ x.pc = "read" => Len(x.out) = x.attempts

\* C10 happens: two chunks answered, one by a reply and one by a failure
C10_Witness ==
    \E s \in 1..Len(sessions) :
       /\ sessions[s].pc = "read"
       /\ sessions[s].reads = 2
       /\ sessions[s].attempts = 2
       /\ Len(sessions[s].out[1]) = 1
       /\ ChatFailed(sessions[s])

\* C11: a zero-length read ends the session: from then on it is closed and
\* nothing of it changes (no send_message call, no write, no read)
C11_ZeroReadEndsSession ==
    [][\A s \in 1..Len(sessions) :
          sessions[s].exit = "eof" =>
             /\ sessions[s].pc = "closed"
             /\ sessions'[s] = sessions[s]]_vars

\* C11 happens: the peer closed after a chunk had been answered
C11_Witness ==
    \E s \in 1..Len(sessions) :
       /\ sessions[s].exit = "eof"
       /\ sessions[s].reads >= 1
       /\ mainPc = "done"

\* C12: a failed read or a failed write ends the session: the failed write is
\* not tried again, and from then on the session is closed and nothing of it
\* changes
C12_IoErrorEndsSession ==
    [][\A s \in 1..Len(sessions) :
          /\ sessions[s].exit \in {"read_error", "write_error"} =>
                /\ sessions[s].pc = "closed"
                /\ sessions'[s] = sessions[s]
          /\ (sessions[s].exit = "" /\ sessions'[s].exit = "read_error") =>
                /\ sessions[s].pc = "read"
                /\ sessions'[s].attempts = sessions[s].attempts
                /\ sessions'[s].chats = sessions[s].chats
                /\ sessions'[s].pc = "closed"
          /\ (sessions[s].exit = "" /\ sessions'[s].exit = "write_error") =>
                /\ sessions[s].pc = "write"
                /\ sessions'[s].attempts = sessions[s].attempts
                /\ sessions'[s].out = sessions[s].out
                /\ sessions'[s].pc = "closed"]_vars

\* C12 happens: the write of the second response failed and main went on to
\* its end
C12_Witness ==
    \E s \in 1..Len(sessions) :
       /\ sessions[s].exit = "write_error"
       /\ sessions[s].attempts = 2
       /\ Len(sessions[s].out) = 1
       /\ mainPc = "done"

\* C13: when send_message returns Ok(r), write_all is given exactly r, and
\* once that write is done r is what was written
C13_ReplyWrittenAsIs ==
    \A s \in 1..Len(sessions) :
       LET x == sessions[s] IN
       (x.result # <<>> /\ x.result[1].ok) =>
          /\ x.pc = "write" => x.pending = x.result[1].text
          /\ (x.pc = "read" \/ x.exit \in {"eof", "read_error"}) =>
                (x.out # <<>> /\ x.out[Len(x.out)] = x.result[1].text)

\* C13 happens: a reply was written and the session is at its next read
C13_Witness ==
    \E s \in 1..Len(sessions) :
       /\ sessions[s].pc = "read"
       /\ sessions[s].result # <<>>
       /\ sessions[s].result[1].ok
       /\ sessions[s].out = << <<"reply">> >>

\* C21: whatever register_instance's outcome (no URL, a transport failure,
\* any status) main spawns every listener task, and whatever the monitor
\* does and is told by the registry, no listener task and no session is
\* ended or held up: without a signal no listener is aborted and no session
\* is dropped, a session closes only by leaving its own loop, and every
\* listener and session can take its next step
C21_ServingUnaffectedByRegistry ==
    /\ mainPc \in {"spawn", "wait_signal"}
    /\ mainPc = "spawn" => (ENABLED SpawnListener \/ ENABLED AwaitSignal)
    /\ mainPc = "wait_signal" =>
          /\ spawned = Len(ListenAddrs)
          /\ \A i \in Listeners : lst[i] # "unspawned"
    /\ \A i \in Listeners :
          /\ lst[i] \notin {"aborted", "bind_failed", "panicked"}
          /\ lst[i] = "bind" => ENABLED ListenerBind(i)
          /\ (lst[i] = "accept" /\ Len(sessions) < MaxSessions) => ENABLED AcceptOk(i)
    /\ \A s \in 1..Len(sessions) :
          /\ sessions[s].pc # "dropped"
          /\ sessions[s].pc = "closed" => sessions[s].exit # ""
          /\ sessions[s].pc = "spawned" => ENABLED SessionStart(s)
          /\ sessions[s].pc = "chat" => ENABLED ChatReturn(s)
          /\ sessions[s].pc = "write" => ENABLED WriteOk(s)
          /\ (sessions[s].pc = "read" /\ SumReads(sessions) < MaxChunks) =>
                ENABLED ReadChunk(s)

\* a healthy report was answered 401 or 403 and the next one failed too;
\* every listener accepts and a session has written a reply and reads on
C21_Witness ==
    /\ authRejected
    /\ consecutive_failures >= 2
    /\ mainPc = "wait_signal"
    /\ \A i \in Listeners : lst[i] = "accept"
    /\ \E s \in 1..Len(sessions) :
          sessions[s].pc = "read" /\ Len(sessions[s].out) = 1

\* C23: once a signal has been received main reaches "Shutdown complete" and
\* returns, whatever the monitor (none, idle, in a report, ended) and the
\* listener tasks (running, failed) are doing
C23_ShutdownCompletes ==
    (mainPc = "shutdown_health") ~> (mainPc = "done" /\ <<"Shutdown complete">> \in log)

\* main has returned after a signal that found the monitor in the middle of
\* a report, one listener failed and another accepting
C23_Witness ==
    /\ mainPc = "done"
    /\ <<"Shutdown complete">> \in log
    /\ monPc = "dropped"
    /\ HealthyCount(reports) >= 1
    /\ ShutdownCount(reports) = 0
    /\ \E i \in Listeners : lst[i] = "bind_failed"
    /\ \E i \in Listeners : lst[i] = "aborted"

\* the monitor task has ended, whatever the way
MonEnded == monPc \in {"done", "panicked", "dropped"}

\* main has called HealthCheckHandle::shutdown or gone past the place of the call
Cancelled == mainPc \in {"abort", "complete", "done"}

\* C22: the monitor task ends only through cancellation or an authentication
\* rejection; reports that fail otherwise never end it
C22_EndsOnlyByCancelOrAuth ==
    MonEnded => (Cancelled \/ authRejected)

\* C24: a healthy report is sent only after a full period of the timer in
\* force has elapsed, counted from the previous report and from the timer's
\* creation: the base interval before the first report, 2^k s after the
\* failure that makes the count k, 3600 s in the reduced state, the base
\* interval after a recovery
C24_ReportsOnePeriodApart ==
    [][HealthyCount(reports') > HealthyCount(reports) => waited]_vars

\* C25: a response that leaves the interval's value as it is leaves the timer
\* as it is
C25_TimerKeptWhenIntervalKept ==
    [][(monPc = "report" /\ monPc' = "select" /\ current_interval' = current_interval) =>
          /\ tickReady' = tickReady
          /\ waited' = waited]_vars

\* C26: between reports the interval is a function of the failure counter:
\* the base interval at 0, 2 s at 1, 4 s at 2, 3600 s from 3 on; the backoff
\* values stay below the 30-minute cap
C26_IntervalFromCounter ==
    (InLoop /\ monPc \in {"select", "report"}) =>
       /\ consecutive_failures = 0 => current_interval = state.health_check_interval
       /\ consecutive_failures = 1 => current_interval = 2
       /\ consecutive_failures = 2 => current_interval = 4
       /\ consecutive_failures >= 3 => current_interval = REDUCED_CHECK_INTERVAL
       /\ current_interval \in {state.health_check_interval, 2, 4, REDUCED_CHECK_INTERVAL}
       /\ consecutive_failures \in {1, 2} => current_interval < MAX_BACKOFF_INTERVAL

\* every value of the counter from 0 to 3 has been passed through with a base
\* interval of 300 s: the monitor is in the reduced state after 3 failures
C26_Witness ==
    /\ monPc = "select"
    /\ state.health_check_interval = DEFAULT_HEALTH_CHECK_INTERVAL
    /\ consecutive_failures = 3
    /\ current_interval = REDUCED_CHECK_INTERVAL

\* C27: every healthy report and the shutdown report carry the name and the
\* token of the registration POST, which is the identity the monitor holds
C27_SameIdentity ==
    /\ \A i \in 1..Len(reports) :
          /\ regPosts # <<>>
          /\ reports[i].name = regPosts[1].name
          /\ reports[i].token = regPosts[1].token
    /\ regPosts # <<>> =>
          /\ reg.name = regPosts[1].name
          /\ reg.token = regPosts[1].token
    /\ state # None => state = reg

\* two healthy reports and the shutdown report have been sent for tokenB
C27_Witness ==
    /\ HealthyCount(reports) >= 2
    /\ ShutdownCount(reports) = 1
    /\ regPosts[1].token = "tokenB"
    /\ monPc = "done"

\* C28: every report goes to the registration URL with "/register" replaced
\* by "/health", and never to the registration URL itself
C28_HealthUrlDiffers ==
    \A i \in 1..Len(reports) :
       /\ reports[i].url = ReplaceRegister(regPosts[1].url)
       /\ reports[i].url # regPosts[1].url

\* the session task still owns its stream: handle_client has not returned
\* and the task has not been cancelled
HoldsConnection(x) == x.pc \in SessLive

\* C29: handle_client's loop is left exactly on a zero-length read, a read
\* error or a write error: a session closes only from its read or its write,
\* with one of the three as the reason; the return of send_message, failed
\* or not, leads to the write; a session that has left the loop no longer
\* holds its connection
C29_ThreeExits ==
    [][\A s \in 1..Len(sessions) :
          /\ sessions'[s].pc = "closed" <=>
                sessions'[s].exit \in {"eof", "read_error", "write_error"}
          /\ (sessions[s].pc # "closed" /\ sessions'[s].pc = "closed") =>
                \/ sessions[s].pc = "read" /\ sessions'[s].exit \in {"eof", "read_error"}
                \/ sessions[s].pc = "write" /\ sessions'[s].exit = "write_error"
          /\ (sessions[s].pc = "chat" /\ sessions'[s] # sessions[s]) =>
                \/ sessions'[s].pc = "write" /\ sessions'[s].exit = ""
                \/ sessions'[s].pc = "dropped"
          /\ sessions'[s].exit # "" => ~HoldsConnection(sessions'[s])]_vars

\* a session answered a failed chat call, read again, and then left on a
\* read error
C29_Witness ==
    \E s \in 1..Len(sessions) :
       /\ sessions[s].exit = "read_error"
       /\ sessions[s].result # <<>>
       /\ ~sessions[s].result[1].ok
       /\ Len(sessions[s].out) = 1
       /\ ~HoldsConnection(sessions[s])

\* the session task is suspended in a socket read or in a ChatService call
Suspended(x) == x.pc \in {"read", "chat"}

\* C30: while a session is suspended in its read or in its chat call, every
\* accepting listener, the one of the session's port included, can take a
\* further connection, and every other session can take its own next step
\* (start, return from its chat call, complete its write, read a chunk): no
\* session waits for another one
C30_SessionsIndependent ==
    \A s \in 1..Len(sessions) :
       Suspended(sessions[s]) =>
          /\ \A i \in Listeners :
                (lst[i] = "accept" /\ Len(sessions) < MaxConcurrent) => ENABLED AcceptOk(i)
          /\ \A u \in 1..Len(sessions) :
                u # s =>
                   /\ sessions[u].pc = "spawned" => ENABLED SessionStart(u)
                   /\ sessions[u].pc = "chat" => ENABLED ChatReturn(u)
                   /\ sessions[u].pc = "write" => ENABLED WriteOk(u)
                   /\ (sessions[u].pc = "read" /\ SumReads(sessions) < MaxChunks) =>
                         ENABLED ReadChunk(u)

\* two connections on port 25: the first session is still in its first chat
\* call while the second, accepted after it, has read, been answered and
\* written its reply
C30_Witness ==
    /\ Len(sessions) = 2
    /\ sessions[1].port = 25
    /\ sessions[2].port = 25
    /\ sessions[1].pc = "chat"
    /\ sessions[1].out = <<>>
    /\ sessions[2].pc = "read"
    /\ Len(sessions[2].out) = 1

(***************************************************************************)
(* Properties of the listeners                                             *)
(***************************************************************************)
\* C14: for every accepted connection the match on the port is evaluated
\* exactly once, by the session task's first poll, and the banner and the
\* branch taken are those of the listener's bound port, whatever the peer's
\* port is (also when the peer's port is another configured port)
C14_ProfileOfBoundPort ==
    \A s \in 1..Len(sessions) :
       LET x == sessions[s] IN
         /\ x.lookups <= 1
         /\ x.pc \notin {"spawned", "dropped"} => x.lookups = 1
         /\ x.lookups = 0 => x.banner = <<>>
         /\ x.lookups = 1 =>
              /\ x.banner = PortMessage(x.port)
              /\ x.pc = "unexpected" <=> PortMessage(x.port) = <<>>
              /\ PortLog(x.port) \subseteq log

\* a connection accepted on port 25 from a peer whose port is 80 got the
\* SMTP banner
C14_Witness ==
    \E s \in 1..Len(sessions) :
       /\ sessions[s].port = 25
       /\ sessions[s].peer = 80
       /\ sessions[s].lookups = 1
       /\ sessions[s].pc = "read"
       /\ sessions[s].banner = <<"220 mail.example.com ESMTP Postfix (Ubuntu)">>

\* C15: every address main listens on has an arm in the match on the port, so
\* every accepted connection is handed to handle_client with that port's banner
C15_EveryListenPortHasProfile ==
    \A s \in 1..Len(sessions) :
       sessions[s].lookups = 1 =>
          /\ sessions[s].pc # "unexpected"
          /\ sessions[s].banner # <<>>

\* C16: a bind failure ends only the failing listener's task, with a logged
\* error: the step changes no other listener, not main and no session; a
\* listener that accepts keeps accepting until main aborts it; main does not
\* leave its wait for a signal because of a bind failure
C16_BindFailureIsLocal ==
    [][/\ \A i \in Listeners :
             (lst[i] = "bind" /\ lst'[i] = "bind_failed") =>
                /\ \A j \in Listeners \ {i} : lst'[j] = lst[j]
                /\ mainPc' = mainPc
                /\ sessions' = sessions
                /\ <<"Listener for ", ToString(ListenAddrs[i]), " failed">> \in log'
       /\ \A j \in Listeners :
             (lst[j] = "accept" /\ lst'[j] # "accept") =>
                /\ mainPc = "abort"
                /\ lst'[j] = "aborted"
       /\ \A j \in Listeners :
             lst[j] = "bind_failed" => lst'[j] = "bind_failed"]_vars

\* three of the four addresses failed to bind; the fourth is bound, has
\* accepted a connection and started its session, and main waits for a signal
C16_Witness ==
    /\ \A i \in 1..3 : lst[i] = "bind_failed"
    /\ lst[4] = "accept"
    /\ mainPc = "wait_signal"
    /\ \E s \in 1..Len(sessions) : sessions[s].port = ListenAddrs[4] /\ sessions[s].pc = "read"

\* C31: an accept error leaves every listener where it is, in its accept
\* loop, and changes nothing else; after accept errors an accepting listener
\* can still accept a connection, which spawns a session
C31_AcceptErrorContinues ==
    [][/\ acceptErrors' > acceptErrors =>
             /\ lst' = lst
             /\ sessions' = sessions
             /\ mainPc' = mainPc
             /\ \E i \in Listeners : lst'[i] = "accept"
       /\ \A i \in Listeners :
             (acceptErrors > 0 /\ lst[i] = "accept" /\ Len(sessions) < MaxSessions) =>
                ENABLED AcceptOk(i)
       /\ (acceptErrors > 0 /\ Len(sessions') > Len(sessions)) =>
             sessions'[Len(sessions')].pc = "spawned"]_vars

\* accept has failed as often as the run allows; all four listeners are in
\* their accept loops and a connection accepted on port 21 has its session
C31_Witness ==
    /\ acceptErrors = MaxAcceptErrors
    /\ \A i \in Listeners : lst[i] = "accept"
    /\ \E s \in 1..Len(sessions) : sessions[s].port = 21 /\ sessions[s].pc = "read"

\* C32: before its first non-empty read a session has written nothing, has
\* nothing to write and has called the ChatService not at all; the banner
\* given to handle_client is never among the bytes written nor the text sent
\* to the ChatService; a peer that sends nothing receives nothing
C32_NothingBeforeFirstRead ==
    \A s \in 1..Len(sessions) :
       LET x == sessions[s] IN
         /\ x.reads = 0 =>
               /\ x.out = <<>>
               /\ x.pending = <<>>
               /\ x.received = <<>>
               /\ x.chats = 0
               /\ x.attempts = 0
         /\ Len(x.out) <= x.reads
         /\ x.chats = x.reads
         /\ x.banner # <<>> =>
               /\ \A k \in 1..Len(x.out) : x.out[k] # x.banner
               /\ x.pending # x.banner

\* a peer connected to port 80, sent nothing and closed: the session had its
\* banner and wrote nothing
C32_Witness ==
    \E s \in 1..Len(sessions) :
       /\ sessions[s].port = 80
       /\ sessions[s].banner # <<>>
       /\ sessions[s].exit = "eof"
       /\ sessions[s].reads = 0
       /\ sessions[s].out = <<>>

\* main has logged the receipt of SIGINT or SIGTERM
SignalReceived ==
    \E sig \in {"SIGINT (Ctrl+C)", "SIGTERM"} :
       <<"Received ", sig, ", initiating graceful shutdown...">> \in log

\* C33: main is past its wait for a signal, or has logged "Shutdown
\* complete", only if a signal was received: whatever has become of the
\* listener tasks, of the monitor and of the registration, without a signal
\* main is in its spawn loop or waits
C33_LeavesOnlyOnSignal ==
    /\ (mainPc \in {"shutdown_health", "abort", "complete", "done"}
           \/ <<"Shutdown complete">> \in log) => SignalReceived
    /\ ~SignalReceived => mainPc \in {"spawn", "wait_signal"}

\* every listener task has ended (bind failure or panic), the monitor has
\* panicked, and main still waits for a signal
C33_Witness ==
    /\ \A i \in Listeners : lst[i] \in {"bind_failed", "panicked"}
    /\ \E i \in Listeners : lst[i] = "bind_failed"
    /\ monPc = "panicked"
    /\ mainPc = "wait_signal"
    /\ ~SignalReceived

\* register_instance has returned: no POST was made, or its response arrived
RegistrationOver ==
    /\ mainPc \notin {"register", "reg_wait"}
    /\ regPosts # <<>> => regPosts[1].outcome # <<>>

\* C34: while register_instance runs, its wait for the registry's response
\* included, no listener task is spawned, no port is bound and no connection
\* is accepted; every spawned listener and every session exists only after
\* register_instance has returned
C34_RegistrationBeforeListeners ==
    /\ mainPc \in {"register", "reg_wait"} =>
          /\ spawned = 0
          /\ \A i \in Listeners : lst[i] = "unspawned"
          /\ sessions = <<>>
    /\ (spawned > 0 \/ sessions # <<>> \/ \E i \in Listeners : lst[i] # "unspawned") =>
          RegistrationOver

\* the registration POST was answered 500 and, after that, a connection was
\* accepted on port 25 and its session started
C34_Witness ==
    /\ regPosts # <<>>
    /\ regPosts[1].outcome = <<500>>
    /\ \E s \in 1..Len(sessions) : sessions[s].port = 25 /\ sessions[s].pc = "read"

(***************************************************************************)
(* Properties of registration                                              *)
(***************************************************************************)
\* C9: no log record holds the complete token of the registration
C9_TokenNeverLogged ==
    \A r \in log : \A i \in 1..Len(r) :
       regPosts # <<>> => r[i] # regPosts[1].token

\* the one registration POST was answered 200 and health checks are enabled
RegisteredOk ==
    /\ regPosts # <<>>
    /\ regPosts[1].outcome = <<200>>
    /\ reg.health_check_enabled

\* C17: a monitor task exists if and only if the registration POST was
\* answered 200 and health checks are enabled; main holds a handle only to an
\* existing monitor, and holds it from register_instance's return until
\* shutdown exactly in that case; for any other answer (404, 500, another 2xx,
\* 401, 403, a transport failure) no monitor ever exists; the one monitor owns
\* the RegistrationState
C17_MonitorIffRegistered200 ==
    /\ monPc # "none" <=> RegisteredOk
    /\ handle => monPc # "none"
    /\ mainPc \in {"spawn", "wait_signal", "shutdown_health"} => (handle <=> RegisteredOk)
    /\ state = IF monPc # "none" THEN reg ELSE None
    /\ (regPosts # <<>> /\ regPosts[1].outcome \notin {<<>>, <<200>>}) =>
          /\ monPc = "none"
          /\ ~handle
          /\ reports = <<>>

\* registration was answered 200, the monitor runs its loop and main holds
\* the handle
C17_Witness ==
    /\ RegisteredOk
    /\ monPc = "select"
    /\ handle
    /\ mainPc = "wait_signal"
    /\ reports # <<>>

NoUrlConfigured ==
    /\ inputs.read
    /\ inputs.env = <<>>
    /\ \/ inputs.cfg.load # "ok"
       \/ ~inputs.cfg.section
       \/ inputs.cfg.url = <<>>

\* C19: when neither the environment variable nor the config file gives a
\* registry URL (config unreadable, without a [registration] section, or
\* without the URL key), register_instance has returned None without any
\* HTTP request; and without a registration POST there is never a monitor,
\* a handle or a health report
C19_NoUrlNoRequest ==
    /\ NoUrlConfigured =>
          /\ regPosts = <<>>
          /\ reg = None
          /\ mainPc = "spawn"
    /\ regPosts = <<>> =>
          /\ ~handle
          /\ monPc = "none"
          /\ reports = <<>>
          /\ state = None

\* the config file has a [registration] section without the URL key, the
\* environment variable is unset, and register_instance has returned
C19_Witness ==
    /\ NoUrlConfigured
    /\ inputs.cfg.load = "ok"
    /\ inputs.cfg.section
    /\ inputs.cfg.interval # <<>>
    /\ mainPc = "spawn"
    /\ <<"No rustbucket_registry_url configured - skipping.">> \in log

\* C20: the registration POST goes to the environment variable's value
\* whenever env::var returned one, whatever the config file holds, and to
\* the config file's value only when env::var returned none
C20_EnvBeforeConfig ==
    inputs.read =>
       /\ inputs.env # <<>> =>
             /\ Len(regPosts) = 1
             /\ regPosts[1].url = inputs.env[1]
             /\ reg.registry_url = inputs.env[1]
       /\ (inputs.env = <<>> /\ ~NoUrlConfigured) =>
             /\ Len(regPosts) = 1
             /\ regPosts[1].url = inputs.cfg.url[1]
             /\ reg.registry_url = inputs.cfg.url[1]

\* both the environment variable and the config file give a URL, the two
\* differ, and the POST in flight goes to the environment's
C20_Witness ==
    /\ mainPc = "reg_wait"
    /\ inputs.env # <<>>
    /\ inputs.cfg.url # <<>>
    /\ inputs.cfg.url # inputs.env
    /\ regPosts[1].url = inputs.env[1]

====
